---------------------------- MODULE Spec2Model ----------------------------
(***************************************************************************)
(* The rtmaii analysis workers (src/rtmaii/worker.py), the exporter        *)
(* (src/rtmaii/exporter.py) and the band analysis                          *)
(* (src/rtmaii/analysis/frequency.py).                                     *)
(*                                                                         *)
(* Every worker is a thread that owns one WorkQueue.  A producer pushes    *)
(* items into the queue, the thread's run loop pops one item, analyses it  *)
(* and publishes the result with pydispatch's dispatcher.send, which calls *)
(* the subscribers' handlers in the calling thread before it returns.      *)
(***************************************************************************)
EXTENDS Integers, Sequences, FiniteSets, TLC

\* ------------------------------------------------------------------ bounds

\* Pushes made by the producers in one behaviour, all queues together.
MaxPushes == 3

\* Largest queue_length an Exporter is constructed with.
MaxQueueLength == 2

\* Longest spectrum (in bins) the band analysis is applied to.
MaxBins == 3

\* Highest band edge (in Hz) of a band definition.
MaxHz == 3

\* Longest frame and longest window (in samples) spectrum is applied to.
MaxFrame == 4

\* ------------------------------------------------------------- the program

\* The two channels analysed; a worker's identity is its channel.
Channels == {1, 2}

PitchVariants == {"ZeroCrossing", "AutoCorrelation", "HPS", "FFT"}

Variants == {"Spectrogram", "Bands", "Pitch", "Exporter"} \cup PitchVariants

\* A default capacity of two pending items.
DefaultQueueLengthTwo == 1 + 1

\* Worker.__init__(self, channel_id, queue_length: int = 1); no subclass
\* passes a queue_length.
DefaultQueueLength == 1

\* What a producer can push: a well-formed frame or spectrum, a malformed
\* one, and None, the shutdown sentinel.
Kinds == {"frame", "bad", "None"}

NoItem == [kind |-> "none", seq |-> 0]

VARIABLES
    variant,         \* variant[w]: the class of the worker of channel w
    ctor,            \* ctor[w]: where the constructor of w is
    nAssigned,       \* nAssigned[w]: subclass attributes assigned so far
    channel_id,      \* channel_id[w]: self.channel_id (0: not assigned)
    qlen,            \* qlen[w]: the capacity of w's WorkQueue
    queue,           \* queue[w]: the pending items of w's WorkQueue
    thread,          \* thread[w]: where the thread of w is
    item,            \* item[w]: the item the run loop holds
    result,          \* result[w]: the estimate computed from item[w]
    events,          \* events[w]: the sends of w since its last pop
    exit,            \* exit[w]: why the thread of w ended
    pushed,          \* pushed[w]: pushes made to w's queue
    popLog,          \* popLog[w]: per pop, the item's seq and pushed[w] then
    sentinelPopped,  \* sentinelPopped[w]: w has popped None
    handling,        \* handling[w]: a receiver's handler of w's event runs
    fin,             \* <<input>> of the analysis function applied, or <<>>
    fout             \* <<output>> of it, or <<>> before it is applied

vars == <<variant, ctor, nAssigned, channel_id, qlen, queue, thread, item,
          result, events, exit, pushed, popLog, sentinelPopped, handling,
          fin, fout>>

\* The state of the analysis functions, which no worker step changes.
pure == <<fin, fout>>

\* ----------------------------------------------------------------- helpers

\* The pushes made so far, which MaxPushes bounds.
RECURSIVE SumOver(_, _)
SumOver(f, S) ==
    IF S = {} THEN 0
    ELSE LET x == CHOOSE y \in S : TRUE
         IN  f[x] + SumOver(f, S \ {x})

TotalPushed == SumOver(pushed, Channels)

\* The attributes a subclass constructor assigns after Worker.__init__ (or
\* Exporter.__init__ after self.start()) has returned, in order.
SubAttrs(v) ==
    CASE v = "Spectrogram" -> <<"sampling_rate", "predict_fn", "dict">>
      [] v = "Bands"       -> <<"bands_of_interest", "sampling_rate">>
      [] v = "Exporter"    -> <<"spectrumCollection">>
      [] v = "Pitch"       -> <<>>
      [] OTHER             -> <<"sampling_rate">>

AttrsReady(w) == nAssigned[w] = Len(SubAttrs(variant[w]))

\* WorkQueue(queue_length).put(item): never waits; a full queue drops its
\* oldest pending item.
QueuePut(q, it, n) ==
    IF Len(q) < n THEN Append(q, it) ELSE Append(Tail(q), it)

\* WorkQueue.get() returns the oldest pending item and removes it; it waits
\* while the queue is empty.
QueueCanGet(q) == q # <<>>
QueueGetItem(q) == Head(q)
QueueGetRest(q) == Tail(q)

\* pitch.pitch_from_*(input, sampling_rate): the estimate of a well-formed
\* input; None and a malformed input raise.
PitchEstimate(it) == it.seq * 110

\* key.note_from_pitch(pitch): the lookup of the note of a pitch.
NoteFromPitch(p) == (p \div 110) % 12

\* What a run loop computes from a well-formed item and sends first: the
\* pitch estimate, or the spectrogram data of the item.
Analysis(v, it) ==
    IF v \in PitchVariants THEN PitchEstimate(it) ELSE it.seq

\* ---------------------------------------------------------------- one step
\* of each run loop on the popped item: "break", "raise" or "ok".

\* The same loop without its test for None.
SpectrogramRunNoCheck(it) ==
    IF it.kind = "bad" THEN "raise" ELSE "ok"

\* SpectrogramWorker.run: None ends the loop; the numpy steps, the reshape
\* to (1,128,128,1) and the classifier raise on a malformed input.
SpectrogramRun(it) ==
    IF it.kind = "None" THEN "break"
    ELSE IF it.kind = "bad" THEN "raise" ELSE "ok"

\* BandsWorker.run: abs(None) raises; frequency_bands takes two arguments
\* and is called with three, which raises for every spectrum.
BandsRun(it) == "raise"

\* ZeroCrossingWorker.run: the item goes to pitch_from_zero_crossings as it
\* is, with no test for None; None has no samples and raises there, as does
\* a malformed frame.
ZeroCrossingRun(it) == IF it.kind = "frame" THEN "ok" ELSE "raise"

\* AutoCorrelationWorker.run: spectral has no convolve_spectrum (it defines
\* convolve_signal), so the attribute lookup raises for every item.
AutoCorrelationRun(it) == "raise"

\* HPSWorker.run: pitch_from_hps(spectrum, sampling_rate, 7), no test for
\* None.
HPSRun(it) == IF it.kind = "frame" THEN "ok" ELSE "raise"

\* FFTWorker.run: pitch_from_fft(spectrum, sampling_rate), no test for None.
FFTRun(it) == IF it.kind = "frame" THEN "ok" ELSE "raise"

Outcome(v, it) ==
    CASE v = "Spectrogram"     -> SpectrogramRun(it)
      [] v = "Bands"           -> BandsRun(it)
      [] v = "ZeroCrossing"    -> ZeroCrossingRun(it)
      [] v = "AutoCorrelation" -> AutoCorrelationRun(it)
      [] v = "HPS"             -> HPSRun(it)
      [] v = "FFT"             -> FFTRun(it)
      [] OTHER                 -> "raise"

\* The signals with no 'key' after 'pitch'.
SignalsNoKey(v) ==
    CASE v = "Spectrogram"   -> <<"spectogramData">>
      [] v = "Bands"         -> <<"bands">>
      [] v \in PitchVariants -> <<"pitch">>
      [] OTHER               -> <<>>

\* The pitch workers' signals with 'key' sent first.
SignalsKeyFirst(v) ==
    CASE v = "Spectrogram"   -> <<"spectogramData">>
      [] v = "Bands"         -> <<"bands">>
      [] v \in PitchVariants -> <<"key", "pitch">>
      [] OTHER               -> <<>>

\* The signals a run loop sends for one item, in order: a pitch worker
\* sends 'pitch' and then, in analyse_key, 'key'.
Signals(v) ==
    CASE v = "Spectrogram"   -> <<"spectogramData">>
      [] v = "Bands"         -> <<"bands">>
      [] v \in PitchVariants -> <<"pitch", "key">>
      [] OTHER               -> <<>>

\* -------------------------------------------------------------------- Init

\* Nothing constructed yet.
WorkersInit ==
    /\ ctor = [w \in Channels |-> "new"]
    /\ nAssigned = [w \in Channels |-> 0]
    /\ channel_id = [w \in Channels |-> 0]
    /\ qlen = [w \in Channels |-> 0]
    /\ queue = [w \in Channels |-> <<>>]
    /\ thread = [w \in Channels |-> "unstarted"]
    /\ item = [w \in Channels |-> NoItem]
    /\ result = [w \in Channels |-> 0]
    /\ events = [w \in Channels |-> <<>>]
    /\ exit = [w \in Channels |-> "none"]
    /\ pushed = [w \in Channels |-> 0]
    /\ popLog = [w \in Channels |-> <<>>]
    /\ sentinelPopped = [w \in Channels |-> FALSE]
    /\ handling = [w \in Channels |-> FALSE]

Init ==
    /\ variant \in [Channels -> Variants]
    /\ WorkersInit
    /\ fin = <<>>
    /\ fout = <<>>

\* ------------------------------------------------------------ construction

\* Worker.__init__ (Exporter.__init__ up to self.start()): the queue, the
\* channel id, then the thread is started and blocks in queue.get().
\* PitchWorker.__init__ calls Worker.__init__(self, args=(), kwargs=None),
\* which raises before anything is created; a queue_length the WorkQueue
\* rejects (0 here) raises before the thread is started.
Construct(w) ==
    /\ ctor[w] = "new"
    /\ \E n \in 0..MaxQueueLength :
         /\ variant[w] # "Exporter" => n = DefaultQueueLength
         /\ IF variant[w] = "Pitch" \/ n = 0
            THEN /\ ctor' = [ctor EXCEPT ![w] = "failed"]
                 /\ UNCHANGED <<qlen, channel_id, thread>>
            ELSE /\ ctor' = [ctor EXCEPT ![w] = "sub"]
                 /\ qlen' = [qlen EXCEPT ![w] = n]
                 /\ channel_id' = [channel_id EXCEPT
                        ![w] = IF variant[w] = "Exporter" THEN 0 ELSE w]
                 /\ thread' = [thread EXCEPT ![w] = "Idle"]
    /\ UNCHANGED <<variant, nAssigned, queue, item, result, events, exit,
                   pushed, popLog, sentinelPopped, handling>>
    /\ UNCHANGED pure

\* A subclass constructor that returns with nothing assigned.
AssignNothing(w) ==
    /\ ctor[w] = "sub"
    /\ ctor' = [ctor EXCEPT ![w] = "done"]
    /\ UNCHANGED <<variant, nAssigned, channel_id, qlen, queue, thread, item,
                   result, events, exit, pushed, popLog, sentinelPopped,
                   handling>>
    /\ UNCHANGED pure

\* The subclass constructor's next assignment.  Loading the classifier,
\* predictor.from_saved_model(<a fixed path>), may raise.
Assign(w) ==
    /\ ctor[w] = "sub"
    /\ IF AttrsReady(w)
       THEN /\ ctor' = [ctor EXCEPT ![w] = "done"]
            /\ UNCHANGED nAssigned
       ELSE \E loaded \in BOOLEAN :
              /\ SubAttrs(variant[w])[nAssigned[w] + 1] # "predict_fn" => loaded
              /\ IF loaded
                 THEN /\ nAssigned' = [nAssigned EXCEPT ![w] = @ + 1]
                      /\ UNCHANGED ctor
                 ELSE /\ ctor' = [ctor EXCEPT ![w] = "failed"]
                      /\ UNCHANGED nAssigned
    /\ UNCHANGED <<variant, channel_id, qlen, queue, thread, item, result,
                   events, exit, pushed, popLog, sentinelPopped, handling>>
    /\ UNCHANGED pure

\* --------------------------------------------------------------- the queue

\* A producer's self.queue.put(item) on a constructed worker.
Push(w, k) ==
    /\ ctor[w] = "done"
    /\ TotalPushed < MaxPushes
    /\ pushed' = [pushed EXCEPT ![w] = @ + 1]
    /\ queue' = [queue EXCEPT
          ![w] = QueuePut(@, [kind |-> k, seq |-> pushed[w] + 1], qlen[w])]
    /\ UNCHANGED <<variant, ctor, nAssigned, channel_id, qlen, thread, item,
                   result, events, exit, popLog, sentinelPopped, handling>>
    /\ UNCHANGED pure

\* A get that returns the oldest pending item and leaves it in the queue.
GetPeek(w) ==
    /\ thread[w] = "Idle"
    /\ QueueCanGet(queue[w])
    /\ item' = [item EXCEPT ![w] = QueueGetItem(queue[w])]
    /\ thread' = [thread EXCEPT ![w] = "Processing"]
    /\ events' = [events EXCEPT ![w] = <<>>]
    /\ popLog' = [popLog EXCEPT ![w] =
          Append(@, [seq |-> QueueGetItem(queue[w]).seq, at |-> pushed[w]])]
    /\ sentinelPopped' = [sentinelPopped EXCEPT
          ![w] = @ \/ QueueGetItem(queue[w]).kind = "None"]
    /\ UNCHANGED <<variant, ctor, nAssigned, channel_id, qlen, queue, result,
                   exit, pushed, handling>>
    /\ UNCHANGED pure

\* A get on the queue of another worker.
GetFromOther(w) ==
    LET o == CHOOSE x \in Channels : x # w
    IN  /\ thread[w] = "Idle"
        /\ QueueCanGet(queue[o])
        /\ item' = [item EXCEPT ![w] = QueueGetItem(queue[o])]
        /\ queue' = [queue EXCEPT ![o] = QueueGetRest(@)]
        /\ thread' = [thread EXCEPT ![w] = "Processing"]
        /\ events' = [events EXCEPT ![w] = <<>>]
        /\ popLog' = [popLog EXCEPT ![w] =
              Append(@, [seq |-> QueueGetItem(queue[o]).seq, at |-> pushed[w]])]
        /\ sentinelPopped' = [sentinelPopped EXCEPT
              ![w] = @ \/ QueueGetItem(queue[o]).kind = "None"]
        /\ UNCHANGED <<variant, ctor, nAssigned, channel_id, qlen, result, exit,
                       pushed, handling>>
        /\ UNCHANGED pure

\* The run loop's self.queue.get().
Get(w) ==
    /\ thread[w] = "Idle"
    /\ QueueCanGet(queue[w])
    /\ item' = [item EXCEPT ![w] = QueueGetItem(queue[w])]
    /\ queue' = [queue EXCEPT ![w] = QueueGetRest(@)]
    /\ thread' = [thread EXCEPT ![w] = "Processing"]
    /\ events' = [events EXCEPT ![w] = <<>>]
    /\ popLog' = [popLog EXCEPT ![w] =
          Append(@, [seq |-> QueueGetItem(queue[w]).seq, at |-> pushed[w]])]
    /\ sentinelPopped' = [sentinelPopped EXCEPT
          ![w] = @ \/ QueueGetItem(queue[w]).kind = "None"]
    /\ UNCHANGED <<variant, ctor, nAssigned, channel_id, qlen, result, exit,
                   pushed, handling>>
    /\ UNCHANGED pure

\* ------------------------------------------------------------ the run loop

\* Whether the loop body reads an attribute of SubAttrs(v) on this item
\* before anything else ends it: the spectrogram loop breaks on None and
\* raises on a malformed input before it reads sampling_rate; abs(None)
\* raises before BandsWorker reads bands_of_interest; the auto-correlation
\* loop raises on spectral.convolve_spectrum before it reads sampling_rate;
\* the other pitch loops evaluate self.sampling_rate as an argument.
ReadsAttrs(v, it) ==
    CASE v = "Spectrogram"     -> it.kind = "frame"
      [] v = "Bands"           -> it.kind # "None"
      [] v = "AutoCorrelation" -> FALSE
      [] v = "Pitch"           -> FALSE
      [] OTHER                 -> TRUE

\* A worker's analysis of the item it holds, up to its first send.  An
\* attribute the constructor has not assigned yet raises AttributeError.
\* No run loop catches an exception: it ends the thread.
Process(w) ==
    /\ thread[w] = "Processing"
    /\ variant[w] # "Exporter"
    /\ LET o == IF ReadsAttrs(variant[w], item[w]) /\ ~ AttrsReady(w)
                THEN "unassigned"
                ELSE Outcome(variant[w], item[w])
       IN  CASE o = "ok" ->
                  /\ thread' = [thread EXCEPT ![w] = "Publishing"]
                  /\ result' = [result EXCEPT
                        ![w] = Analysis(variant[w], item[w])]
                  /\ UNCHANGED exit
             [] o = "break" ->
                  /\ thread' = [thread EXCEPT ![w] = "Terminated"]
                  /\ exit' = [exit EXCEPT ![w] = "sentinel"]
                  /\ UNCHANGED result
             [] o = "unassigned" ->
                  /\ thread' = [thread EXCEPT ![w] = "Terminated"]
                  /\ exit' = [exit EXCEPT ![w] = "unassigned"]
                  /\ UNCHANGED result
             [] OTHER ->
                  /\ thread' = [thread EXCEPT ![w] = "Terminated"]
                  /\ exit' = [exit EXCEPT ![w] = "processing"]
                  /\ UNCHANGED result
    /\ UNCHANGED <<variant, ctor, nAssigned, channel_id, qlen, queue, item,
                   events, pushed, popLog, sentinelPopped, handling>>
    /\ UNCHANGED pure

\* Exporter.run: append the item (None too) to spectrumCollection and
\* pickle the collection to a file; opening or writing the file may raise.
ExporterSave(w) ==
    /\ thread[w] = "Processing"
    /\ variant[w] = "Exporter"
    /\ \E written \in BOOLEAN :
         IF ~ AttrsReady(w)
         THEN /\ thread' = [thread EXCEPT ![w] = "Terminated"]
              /\ exit' = [exit EXCEPT ![w] = "unassigned"]
         ELSE IF written
         THEN /\ thread' = [thread EXCEPT ![w] = "Idle"]
              /\ UNCHANGED exit
         ELSE /\ thread' = [thread EXCEPT ![w] = "Terminated"]
              /\ exit' = [exit EXCEPT ![w] = "processing"]
    /\ UNCHANGED <<variant, ctor, nAssigned, channel_id, qlen, queue, item,
                   result, events, pushed, popLog, sentinelPopped, handling>>
    /\ UNCHANGED pure

\* The next event with another channel's id as its sender.
NextEventOtherSender(w) ==
    LET sig == Signals(variant[w])[Len(events[w]) + 1]
    IN  [signal |-> sig,
         sender |-> CHOOSE x \in Channels : x # channel_id[w],
         data   |-> IF sig = "key" THEN NoteFromPitch(result[w])
                    ELSE result[w]]

\* The event of the next send of w for the item it holds.
NextEvent(w) ==
    LET sig == Signals(variant[w])[Len(events[w]) + 1]
    IN  [signal |-> sig,
         sender |-> channel_id[w],
         data   |-> IF sig = "key" THEN NoteFromPitch(result[w])
                    ELSE result[w]]

\* Where the run loop goes when dispatcher.send has returned.
AfterSend(w, n) ==
    IF n < Len(Signals(variant[w])) THEN "Publishing" ELSE "Idle"

\* A send that hands the event to the receiver and returns at once.
SendDetached(w) ==
    /\ thread[w] = "Publishing"
    /\ events' = [events EXCEPT ![w] = Append(@, NextEvent(w))]
    /\ \E connected \in BOOLEAN :
         /\ handling' = [handling EXCEPT ![w] = connected]
         /\ thread' = [thread EXCEPT ![w] = AfterSend(w, Len(events[w]) + 1)]
    /\ UNCHANGED <<variant, ctor, nAssigned, channel_id, qlen, queue, item,
                   result, exit, pushed, popLog, sentinelPopped>>
    /\ UNCHANGED pure

\* dispatcher.send(signal, sender, data): with no receiver connected it
\* returns at once; with one, the receiver's handler runs in this thread
\* and send returns when the handler has.
Send(w) ==
    /\ thread[w] = "Publishing"
    /\ events' = [events EXCEPT ![w] = Append(@, NextEvent(w))]
    /\ \E connected \in BOOLEAN :
         /\ handling' = [handling EXCEPT ![w] = connected]
         /\ thread' = [thread EXCEPT ![w] =
               IF connected THEN "InHandler"
               ELSE AfterSend(w, Len(events[w]) + 1)]
    /\ UNCHANGED <<variant, ctor, nAssigned, channel_id, qlen, queue, item,
                   result, exit, pushed, popLog, sentinelPopped>>
    /\ UNCHANGED pure

\* The receiver's handler returns, and so does dispatcher.send.
HandlerReturn(w) ==
    /\ handling[w]
    /\ handling' = [handling EXCEPT ![w] = FALSE]
    /\ thread' = [thread EXCEPT
          ![w] = IF @ = "InHandler" THEN AfterSend(w, Len(events[w])) ELSE @]
    /\ UNCHANGED <<variant, ctor, nAssigned, channel_id, qlen, queue, item,
                   result, events, exit, pushed, popLog, sentinelPopped>>
    /\ UNCHANGED pure

\* The receiver's handler raises: dispatcher.send lets the exception
\* through, and nothing in the run loop catches it.
HandlerRaise(w) ==
    /\ handling[w]
    /\ thread[w] = "InHandler"
    /\ handling' = [handling EXCEPT ![w] = FALSE]
    /\ thread' = [thread EXCEPT ![w] = "Terminated"]
    /\ exit' = [exit EXCEPT ![w] = "handler"]
    /\ UNCHANGED <<variant, ctor, nAssigned, channel_id, qlen, queue, item,
                   result, events, pushed, popLog, sentinelPopped>>
    /\ UNCHANGED pure

\* ----------------------------------------------------------- specification

Next ==
    \E w \in Channels :
        \/ Construct(w)
        \/ Assign(w)
        \/ \E k \in Kinds : Push(w, k)
        \/ Get(w)
        \/ Process(w)
        \/ ExporterSave(w)
        \/ Send(w)
        \/ HandlerReturn(w)
        \/ HandlerRaise(w)

Spec == Init /\ [][Next]_vars

\* ----------------------------------------------------------- band analysis
\* src/rtmaii/analysis/frequency.py.  Magnitudes are in tenths: 5 is 0.5.

\* remove_noise(spectrum, 0.5): the noise level frequency_bands passes.
NoiseLevel == 5

Magnitudes == {0, 3, 5, 10}

SampleRates == {2, 4, 8}

BandLabels == {"bass", "highs"}

RECURSIVE SumSeq(_)
SumSeq(s) == IF s = <<>> THEN 0 ELSE Head(s) + SumSeq(Tail(s))

\* s[a:b] of Python, for a list s and a, b >= 0.
PySlice(s, a, b) ==
    LET hi == IF b < Len(s) THEN b ELSE Len(s)
    IN  IF a >= hi THEN <<>> ELSE SubSeq(s, a + 1, hi)

\* amp <= noise_level in place of amp < noise_level.
remove_noise_inclusive(spectrum, noise_level) ==
    [i \in 1..Len(spectrum) |->
        IF spectrum[i] <= noise_level THEN 0 ELSE spectrum[i]]

\* remove_noise(spectrum, noise_level)
remove_noise(spectrum, noise_level) ==
    [i \in 1..Len(spectrum) |->
        IF spectrum[i] < noise_level THEN 0 ELSE spectrum[i]]

\* The band edges index the spectrum directly: spectrum[int(low):int(high)].
frequency_bands(spectrum, bands) ==
    LET filtered_spectrum == remove_noise(spectrum, NoiseLevel)
    IN  [band \in DOMAIN bands |->
            SumSeq(PySlice(filtered_spectrum, bands[band][1], bands[band][2]))]

Spectra == UNION {[1..n -> Magnitudes] : n \in 0..MaxBins}

BandInputs ==
    [spectrum : Spectra,
     bands : [BandLabels -> (0..MaxHz) \X (0..MaxHz)],
     sampling_rate : SampleRates]

BandInit ==
    /\ variant = [w \in Channels |-> "Bands"]
    /\ WorkersInit
    /\ fin \in {<<x>> : x \in BandInputs}
    /\ fout = <<>>

ApplyFrequencyBands ==
    /\ fin # <<>>
    /\ fout = <<>>
    /\ fout' = <<frequency_bands(fin[1].spectrum, fin[1].bands)>>
    /\ UNCHANGED <<variant, ctor, nAssigned, channel_id, qlen, queue, thread,
                   item, result, events, exit, pushed, popLog, sentinelPopped,
                   handling, fin>>

BandNext == ApplyFrequencyBands

BandSpec == BandInit /\ [][BandNext]_vars

\* ------------------------------------------------------------------ claims

C2_LatestWins ==
    \A w \in Channels :
        qlen[w] = DefaultQueueLength =>
            /\ Len(queue[w]) <= 1
            /\ \A i \in 1..Len(popLog[w]) : popLog[w][i].seq = popLog[w][i].at

\* A and B were pushed before the first pop, which returned B; the queue is
\* empty again.
C2_Witness ==
    \E w \in Channels :
        /\ variant[w] # "Exporter"
        /\ Len(popLog[w]) = 1
        /\ popLog[w][1] = [seq |-> 2, at |-> 2]
        /\ queue[w] = <<>>

\* C3: a queue never holds more than queue_length items (1 for every worker
\* of worker.py), and a push to a constructed worker is enabled in every
\* state the producers have a push left in, whatever the thread does.
C3_BoundedNeverBlocks ==
    \A w \in Channels :
        /\ Len(queue[w]) <= qlen[w]
        /\ variant[w] # "Exporter" => Len(queue[w]) <= 1
        /\ (ctor[w] = "done" /\ TotalPushed < MaxPushes) =>
               \A k \in Kinds : ENABLED Push(w, k)

\* Two pushes were made on a full queue while the worker was busy with the
\* first item, and the worker has ended since.
C3_Witness ==
    \E w \in Channels :
        /\ variant[w] # "Exporter"
        /\ Len(popLog[w]) = 1 /\ popLog[w][1].at = 1
        /\ pushed[w] = 3
        /\ Len(queue[w]) = qlen[w]
        /\ thread[w] = "Terminated"

\* C4: a pop returns an item that was pushed before it and is pending, and
\* removes it: no item is returned by two pops, and no pending item has been
\* returned already; with an empty queue the thread stays in get().
C4_PopRemoves ==
    \A w \in Channels :
        /\ Len(popLog[w]) <= pushed[w]
        /\ \A i \in 1..Len(popLog[w]) :
              /\ popLog[w][i].seq \in 1..popLog[w][i].at
              /\ \A j \in 1..Len(popLog[w]) :
                    i < j => popLog[w][i].seq < popLog[w][j].seq
              /\ \A j \in 1..Len(queue[w]) :
                    queue[w][j].seq # popLog[w][i].seq
        /\ (thread[w] = "Idle" /\ queue[w] = <<>>) => ~ ENABLED Get(w)

\* A worker has popped two items and waits in get() on its empty queue.
C4_Witness ==
    \E w \in Channels :
        /\ Len(popLog[w]) = 2
        /\ thread[w] = "Idle"
        /\ queue[w] = <<>>

\* C5: a failure raised while a worker processes a popped item never ends
\* the worker's thread.
C5_Original ==
    \A w \in Channels : exit[w] # "processing"

\* C6: a worker's thread ends by no other path than popping the shutdown
\* sentinel.
C6_Original ==
    [][\A w \in Channels :
          (thread[w] # "Terminated" /\ thread'[w] = "Terminated")
              => item[w].kind = "None"]_vars

C9_Original ==
    \A w \in Channels : ctor[w] = "failed" => thread[w] = "unstarted"

\* C10: the value frequency_bands reports for a band is the sum of the
\* noise-filtered magnitudes of the bins whose frequency in Hz, bin index
\* times sampling_rate / (2 * length), lies in the band's [low, high).
C10_Original ==
    fout # <<>> =>
        LET in == fin[1]
            s == remove_noise(in.spectrum, NoiseLevel)
            n == Len(s)
            inBand(i, b) ==
                /\ in.bands[b][1] * 2 * n <= (i - 1) * in.sampling_rate
                /\ (i - 1) * in.sampling_rate < in.bands[b][2] * 2 * n
        IN  \A b \in DOMAIN in.bands :
                fout[1][b] = SumSeq([i \in 1..n |->
                                        IF inBand(i, b) THEN s[i] ELSE 0])

\* The bins (numbered from 1) a band selects: spectrum[int(low):int(high)].
BandBins(in, b) ==
    {i \in 1..Len(in.spectrum) : in.bands[b][1] < i /\ i <= in.bands[b][2]}

\* The spectrum has energy, and all of it in bins of band b that no other
\* band selects.
EnergyOnlyIn(in, b) ==
    /\ \E i \in 1..Len(in.spectrum) : in.spectrum[i] > 0
    /\ \A i \in 1..Len(in.spectrum) :
          in.spectrum[i] > 0 =>
              /\ i \in BandBins(in, b)
              /\ \A c \in DOMAIN in.bands \ {b} : i \notin BandBins(in, c)

AllZero(s) == \A i \in 1..Len(s) : s[i] = 0

C12_Original ==
    fout # <<>> =>
        /\ \A b \in DOMAIN fout[1] : fout[1][b] >= 0
        /\ SumOver(fout[1], DOMAIN fout[1]) = 10

\* ------------------------------------------------------ spectral transform
\* src/rtmaii/analysis/spectral.py.  A call's outcome is [ok, val]: the value
\* returned, or ok = FALSE when the call raises.

Raised == [ok |-> FALSE, val |-> <<>>]

Returned(v) == [ok |-> TRUE, val |-> v]

Samples == {0, 1}

WindowCoefficients == {1, 2}

\* signal * window of two numpy arrays: element by element when the lengths
\* agree; an array of length 1 is broadcast over the other; any other pair
\* of lengths raises ValueError.
NumpyMultiply(a, b) ==
    IF Len(a) = Len(b) THEN Returned([i \in 1..Len(a) |-> a[i] * b[i]])
    ELSE IF Len(b) = 1 THEN Returned([i \in 1..Len(a) |-> a[i] * b[1]])
    ELSE IF Len(a) = 1 THEN Returned([i \in 1..Len(b) |-> a[1] * b[i]])
    ELSE Raised

\* lfilter(numerator, denominator, signal) with denominator[0] = 1: the
\* difference equation y[n] = b0 x[n] + b1 x[n-1] - a1 y[n-1]; the output is
\* as long as the signal.
RECURSIVE LFilterAt(_, _, _, _)
LFilterAt(numerator, denominator, signal, n) ==
    IF n = 0 THEN 0
    ELSE numerator[1] * signal[n]
         + (IF n > 1 THEN numerator[2] * signal[n - 1] ELSE 0)
         - denominator[2] * LFilterAt(numerator, denominator, signal, n - 1)

\* band_pass_filter(signal, numerator, denominator)
band_pass_filter(signal, numerator, denominator) ==
    [n \in 1..Len(signal) |-> LFilterAt(numerator, denominator, signal, n)]

\* The coefficients butter_bandpass returned, when a filter is given.
Filters == {[numerator |-> <<1, 1>>, denominator |-> <<1, 1>>]}

\* fft(signal) / signal_length: one coefficient per sample, coefficient k
\* kept as the term (k, signal, signal_length); scipy's fft raises
\* ValueError on an empty signal.
NormalizedFFT(signal) ==
    [k \in 1..Len(signal) |->
        [bin |-> k - 1, of |-> signal, over |-> Len(signal)]]

\* [:signal_length // 2 + 1] in place of [:signal_length // 2].
spectrum_transform_inclusive(signal) ==
    IF Len(signal) = 0 THEN Raised
    ELSE Returned(PySlice(NormalizedFFT(signal), 0, Len(signal) \div 2 + 1))

\* spectrum_transform(signal)
spectrum_transform(signal) ==
    IF Len(signal) = 0 THEN Raised
    ELSE Returned(PySlice(NormalizedFFT(signal), 0, Len(signal) \div 2))

\* spectrum(signal, window, bp_filter): bp_filter is <<>> for None.
spectrum(signal, window, bp_filter) ==
    LET windowed_signal == NumpyMultiply(signal, window)
    IN  IF ~ windowed_signal.ok THEN Raised
        ELSE LET filtered_signal ==
                     IF bp_filter = <<>> THEN windowed_signal.val
                     ELSE band_pass_filter(windowed_signal.val,
                                           bp_filter[1].numerator,
                                           bp_filter[1].denominator)
             IN  spectrum_transform(filtered_signal)

Frames == UNION {[1..n -> Samples] : n \in 0..MaxFrame}

Windows == UNION {[1..n -> WindowCoefficients] : n \in 0..MaxFrame}

SpectrumInputs ==
    [signal : Frames,
     window : Windows,
     bp_filter : {<<>>} \cup {<<f>> : f \in Filters}]

SpectrumInit ==
    /\ variant = [w \in Channels |-> "FFT"]
    /\ WorkersInit
    /\ fin \in {<<x>> : x \in SpectrumInputs}
    /\ fout = <<>>

ApplySpectrum ==
    /\ fin # <<>>
    /\ fout = <<>>
    /\ fout' = <<spectrum(fin[1].signal, fin[1].window, fin[1].bp_filter)>>
    /\ UNCHANGED <<variant, ctor, nAssigned, channel_id, qlen, queue, thread,
                   item, result, events, exit, pushed, popLog, sentinelPopped,
                   handling, fin>>

SpectrumNext == ApplySpectrum

SpectrumSpec == SpectrumInit /\ [][SpectrumNext]_vars

\* C13 as stated: for a frame and a window of the same length L, with or
\* without a band-pass filter, spectrum returns exactly floor(L/2) bins.
C13_Original ==
    (fout # <<>> /\ Len(fin[1].signal) = Len(fin[1].window)) =>
        /\ fout[1].ok
        /\ Len(fout[1].val) = Len(fin[1].signal) \div 2

\* C13 as amended: for a frame and a window of the same length L >= 1, with
\* or without a band-pass filter, spectrum returns exactly floor(L/2) bins;
\* for L = 0 it returns nothing, the transform of an empty signal raises.
C13_Amended ==
    (fout # <<>> /\ Len(fin[1].signal) = Len(fin[1].window)) =>
        IF Len(fin[1].signal) >= 1
        THEN /\ fout[1].ok
             /\ Len(fout[1].val) = Len(fin[1].signal) \div 2
        ELSE ~ fout[1].ok

\* A filtered frame of 3 samples under a window of 3 gave 1 bin.
C13_Witness ==
    /\ fout # <<>>
    /\ Len(fin[1].signal) = 3 /\ Len(fin[1].window) = 3
    /\ fin[1].bp_filter # <<>>
    /\ fout[1].ok /\ Len(fout[1].val) = 1

\* C14: spectrum raises, and returns no spectrum, for every frame and window
\* whose lengths differ.
C14_Original ==
    (fout # <<>> /\ Len(fin[1].signal) # Len(fin[1].window)) => ~ fout[1].ok


\* --------------------------------------------------------- normalizorFFT
\* Magnitudes are exact fractions <<numerator, denominator>> in lowest terms,
\* denominator positive; the inputs are the vectors whose norm is rational.

Abs(n) == IF n < 0 THEN -n ELSE n

RECURSIVE GCD(_, _)
GCD(a, b) == IF b = 0 THEN a ELSE GCD(b, a % b)

Frac(n, d) == LET g == GCD(Abs(n), d) IN <<n \div g, d \div g>>

RECURSIVE SqrtFrom(_, _)
SqrtFrom(n, r) == IF r * r >= n THEN r ELSE SqrtFrom(n, r + 1)

RECURSIVE ProdDen(_)
ProdDen(s) == IF s = <<>> THEN 1 ELSE Head(s)[2] * ProdDen(Tail(s))

\* The vector s over the common denominator ProdDen(s).
Scaled(s) == [i \in 1..Len(s) |-> s[i][1] * (ProdDen(s) \div s[i][2])]

SumSquares(t) == SumSeq([i \in 1..Len(t) |-> t[i] * t[i]])

HasRationalNorm(s) ==
    LET n == SumSquares(Scaled(s)) IN SqrtFrom(n, 0) * SqrtFrom(n, 0) = n

\* numpy.linalg.norm(fft), as the fraction NormNum(s) / ProdDen(s).
NormNum(s) == SqrtFrom(SumSquares(Scaled(s)), 0)

\* fft / norm ** 2 in place of fft / norm.
normalizorFFT_squared(fft) ==
    IF NormNum(fft) = 0 THEN fft
    ELSE [i \in 1..Len(fft) |->
             Frac(fft[i][1] * ProdDen(fft) * ProdDen(fft),
                  fft[i][2] * NormNum(fft) * NormNum(fft))]

\* normalizorFFT(fft)
normalizorFFT(fft) ==
    IF NormNum(fft) = 0 THEN fft
    ELSE [i \in 1..Len(fft) |->
             Frac(fft[i][1] * ProdDen(fft), fft[i][2] * NormNum(fft))]

Amplitudes == {-4, -3, 0, 3, 4}

NormInputs ==
    {s \in UNION {[1..n -> {<<a, 1>> : a \in Amplitudes}] : n \in 0..MaxBins} :
        HasRationalNorm(s)}

NormInit ==
    /\ variant = [w \in Channels |-> "Spectrogram"]
    /\ WorkersInit
    /\ fin \in {<<s>> : s \in NormInputs}
    /\ fout = <<>>

\* One call of normalizorFFT: on the input, then on the previous result.
ApplyNormalizorFFT ==
    /\ fin # <<>>
    /\ Len(fout) < 2
    /\ fout' = Append(fout, normalizorFFT(IF fout = <<>> THEN fin[1]
                                          ELSE fout[Len(fout)]))
    /\ UNCHANGED <<variant, ctor, nAssigned, channel_id, qlen, queue, thread,
                   item, result, events, exit, pushed, popLog, sentinelPopped,
                   handling, fin>>

NormNext == ApplyNormalizorFFT

NormSpec == NormInit /\ [][NormNext]_vars

IsZeroSpectrum(s) == \A i \in 1..Len(s) : s[i][1] = 0

Exponents == {-7, 0, 2}

DecibelMagnitudes ==
    {[kind |-> "zero", exp |-> 0]} \cup {[kind |-> "pow", exp |-> e] : e \in Exponents}

WindowSums == {0, 2, 20}

\* numpy's floating-point error state (numpy.seterr): a division by zero
\* gives inf or nan with a warning, or raises FloatingPointError.
ErrStates == {"warn", "raise"}

Float(k, x) == [kind |-> k, v |-> x]

\* absolute(ffts) * 2.0 / sum(window) / power(2.0, 8 * 0), one bin.
ScaleBin(m, wsum) ==
    IF wsum = 0
    THEN IF m.kind = "zero" THEN [kind |-> "nan", exp |-> 0]
         ELSE [kind |-> "inf", exp |-> 0]
    ELSE IF m.kind = "zero" THEN m
    ELSE [kind |-> "pow", exp |-> m.exp - (IF wsum = 2 THEN 0 ELSE 1)]

\* log10 of one bin, in the "warn" error state.
Log10(x) ==
    CASE x.kind = "zero" -> Float("-inf", 0)
      [] x.kind = "pow" -> Float("num", x.exp)
      [] x.kind = "inf" -> Float("inf", 0)
      [] OTHER -> Float("nan", 0)

\* (20 * loggedffts).clip(-120), one bin.
Times20Clip(x) ==
    CASE x.kind = "num" -> Float("num", IF 20 * x.v < -120 THEN -120 ELSE 20 * x.v)
      [] x.kind = "-inf" -> Float("num", -120)
      [] OTHER -> x

\* convertingMagnitudeToDecibel(ffts, window).  In the "raise" error state
\* the division by a zero window sum raises outside the try; log10 of a
\* zero bin raises inside it, the except clause sets loggedffts = 0, and
\* (20 * 0).clip raises AttributeError, an int having no clip.
convertingMagnitudeToDecibel(ffts, wsum, err) ==
    LET scaled == [i \in 1..Len(ffts) |-> ScaleBin(ffts[i], wsum)]
    IN  IF err = "raise" /\ wsum = 0 /\ Len(ffts) > 0 THEN Raised
        ELSE IF err = "raise" /\ \E i \in 1..Len(ffts) : scaled[i].kind = "zero"
        THEN Raised
        ELSE Returned([i \in 1..Len(ffts) |-> Times20Clip(Log10(scaled[i]))])

DecibelInputs ==
    [ffts : UNION {[1..n -> DecibelMagnitudes] : n \in 0..MaxBins},
     wsum : WindowSums,
     err : ErrStates]

DecibelInit ==
    /\ variant = [w \in Channels |-> "Spectrogram"]
    /\ WorkersInit
    /\ fin \in {<<x>> : x \in DecibelInputs}
    /\ fout = <<>>

ApplyDecibel ==
    /\ fin # <<>>
    /\ fout = <<>>
    /\ fout' = <<convertingMagnitudeToDecibel(fin[1].ffts, fin[1].wsum,
                                              fin[1].err)>>
    /\ UNCHANGED <<variant, ctor, nAssigned, channel_id, qlen, queue, thread,
                   item, result, events, exit, pushed, popLog, sentinelPopped,
                   handling, fin>>

DecibelNext == ApplyDecibel

DecibelSpec == DecibelInit /\ [][DecibelNext]_vars

\* C16: for every input convertingMagnitudeToDecibel returns a sequence of
\* the input's length whose every value is at least -120 dB, a bin of
\* magnitude exactly 0 is mapped to exactly -120 dB, and a failure of the
\* logarithm yields the -120 dB floor, not 0 and not an error.
C16_Original ==
    fout # <<>> =>
        /\ fout[1].ok
        /\ Len(fout[1].val) = Len(fin[1].ffts)
        /\ \A i \in 1..Len(fout[1].val) :
              /\ fout[1].val[i].kind = "num"
              /\ fout[1].val[i].v >= -120
              /\ fin[1].ffts[i].kind = "zero" => fout[1].val[i].v = -120


\* ------------------------------------------------------- events and workers

\* C17 as stated: every event a worker sends carries the channel_id the
\* worker was constructed with, and its signal is 'pitch', 'key' or 'bands':
\* pitch workers send only 'pitch' and 'key', the bands worker only 'bands',
\* and no worker sends any other signal.
C17_Original ==
    \A w \in Channels : \A i \in 1..Len(events[w]) :
        /\ events[w][i].sender = w
        /\ events[w][i].signal \in {"pitch", "key", "bands"}
        /\ variant[w] \in PitchVariants =>
              events[w][i].signal \in {"pitch", "key"}
        /\ variant[w] = "Bands" => events[w][i].signal = "bands"

\* C17 as amended: every event a worker sends carries the channel_id the
\* worker was constructed with; pitch workers send only 'pitch' and 'key',
\* the bands worker only 'bands', the spectrogram worker only
\* 'spectogramData', and no worker sends any other signal.
C17_Amended ==
    \A w \in Channels : \A i \in 1..Len(events[w]) :
        /\ events[w][i].sender = w
        /\ events[w][i].signal \in {"pitch", "key", "bands", "spectogramData"}
        /\ variant[w] \in PitchVariants =>
              events[w][i].signal \in {"pitch", "key"}
        /\ variant[w] = "Bands" => events[w][i].signal = "bands"
        /\ variant[w] = "Spectrogram" =>
              events[w][i].signal = "spectogramData"

\* The spectrogram worker of channel 1 has sent 'spectogramData' and the
\* pitch worker of channel 2 'pitch' and 'key', each under its own id.
C17_Witness ==
    /\ variant[1] = "Spectrogram" /\ variant[2] \in PitchVariants
    /\ Len(events[1]) = 1 /\ Len(events[2]) = 2
    /\ events[1][1] = [signal |-> "spectogramData", sender |-> 1,
                        data |-> result[1]]
    /\ events[2][1].signal = "pitch" /\ events[2][1].sender = 2
    /\ events[2][2].signal = "key" /\ events[2][2].sender = 2


\* Everything worker w owns.
WorkerState(w) ==
    <<ctor[w], nAssigned[w], channel_id[w], qlen[w], queue[w], thread[w],
      item[w], result[w], events[w], exit[w], pushed[w], popLog[w],
      sentinelPopped[w], handling[w]>>

\* What a push to w leaves alone in w itself.
BesidesQueue(w) ==
    <<ctor[w], nAssigned[w], channel_id[w], qlen[w], thread[w], item[w],
      result[w], events[w], exit[w], popLog[w], sentinelPopped[w],
      handling[w]>>

\* C18: workers are isolated.  A push to x changes only x's queue; an item
\* is popped by x only from x's queue; an event sent by x carries x's id and
\* the analysis of x's item; and no step of one worker changes the queue,
\* the state or the events of another.
C18_Isolated ==
    [][\A x \in Channels :
         /\ pushed'[x] # pushed[x] => BesidesQueue(x)' = BesidesQueue(x)
         /\ Len(popLog'[x]) > Len(popLog[x]) =>
               /\ queue[x] # <<>>
               /\ item'[x] = Head(queue[x])
               /\ queue'[x] = Tail(queue[x])
         /\ Len(events'[x]) > Len(events[x]) =>
               /\ events'[x][Len(events'[x])].sender = x
               /\ result[x] = Analysis(variant[x], item[x])
         /\ WorkerState(x)' # WorkerState(x) =>
               \A y \in Channels \ {x} : WorkerState(y)' = WorkerState(y)
      ]_vars

\* Worker 1 has an item pending that it has not popped, while worker 2 has
\* popped its own item and sent its first event.
C18_Witness ==
    /\ pushed[1] = 1 /\ Len(queue[1]) = 1 /\ popLog[1] = <<>>
    /\ thread[1] = "Idle" /\ events[1] = <<>>
    /\ pushed[2] = 1 /\ queue[2] = <<>> /\ Len(popLog[2]) = 1
    /\ Len(events[2]) = 1 /\ events[2][1].sender = 2

\* C19: although the thread is started before the subclass constructor
\* assigns sampling_rate, bands_of_interest or spectrumCollection, no run
\* loop reads one of them before it is assigned, items being pushed only
\* after the constructor has returned.
C19_NoUnassignedRead ==
    \A w \in Channels :
        /\ exit[w] # "unassigned"
        /\ thread[w] \in {"Processing", "Publishing", "InHandler"} =>
              AttrsReady(w)

\* The thread of worker 1 is started and waiting while its constructor has
\* still to assign an attribute, and the bands worker 2, constructed, has
\* read its attributes on a frame.
C19_Witness ==
    /\ ctor[1] = "sub" /\ thread[1] = "Idle" /\ ~ AttrsReady(1)
    /\ variant[2] = "Bands" /\ ctor[2] = "done" /\ AttrsReady(2)
    /\ item[2].kind = "frame" /\ thread[2] = "Terminated"
    /\ exit[2] = "processing"

\* C20: in each pitch worker, for every popped item, 'pitch' is sent before
\* 'key', the key is computed from exactly that pitch estimate, both carry
\* the same channel_id, and no event of a later item is sent between them.
C20_PitchThenKey ==
    [][\A w \in Channels : variant[w] \in PitchVariants =>
         /\ Len(events[w]) = 1 => item'[w] = item[w]
         /\ events'[w] # events[w] =>
               \/ /\ events'[w] = <<>>
                  /\ Len(events[w]) = 2
               \/ /\ events[w] = <<>>
                  /\ item'[w] = item[w]
                  /\ events'[w] = <<[signal |-> "pitch",
                                     sender |-> w,
                                     data   |-> PitchEstimate(item[w])]>>
               \/ /\ Len(events[w]) = 1
                  /\ events'[w] = Append(events[w],
                        [signal |-> "key",
                         sender |-> events[w][1].sender,
                         data   |-> NoteFromPitch(events[w][1].data)])
      ]_vars

\* A pitch worker has sent 'pitch' and then 'key' for the item it popped
\* while a later item waits in its queue.
C20_Witness ==
    \E w \in Channels :
        /\ variant[w] \in PitchVariants
        /\ Len(events[w]) = 2
        /\ events[w][1] = [signal |-> "pitch", sender |-> w,
                           data |-> PitchEstimate(item[w])]
        /\ events[w][2] = [signal |-> "key", sender |-> w,
                           data |-> NoteFromPitch(PitchEstimate(item[w]))]
        /\ queue[w] # <<>>
        /\ Head(queue[w]).seq > item[w].seq

=============================================================================
